---- MODULE Spec2Model ----
(***************************************************************************)
(* CRUD adapters of the AWS provider: Access Analyzer analyzer ("AA"),     *)
(* Redshift snapshot schedule ("RS"), EC2 traffic mirror filter ("TMF"),   *)
(* and the WAF regional rule data source.  One resource instance of one    *)
(* adapter is driven against one external object; every API call is one    *)
(* step, so out-of-band changes interleave between the calls of a handler. *)
(***************************************************************************)
EXTENDS Integers, Sequences, FiniteSets, TLC

VARIABLES
    meta,      \* the client handle: adapter kind, DefaultTagsConfig, IgnoreTagsConfig
    ext,       \* the external AWS object
    d,         \* schema.ResourceData of the resource instance
    pc,        \* position inside the running handler ("idle": none running)
    op,        \* the running / last finished handler and its result
    calls,     \* API calls issued by the running / last finished handler
    loc,       \* handler locals: retry attempts, enumerated clusters, loop index
    ds         \* the data source lookup: listing, name, loop state, result

vars == <<meta, ext, d, pc, op, calls, loc, ds>>

----------------------------------------------------------------------------
(* Bounds *)
MaxAttempts == 2      \* CreateAnalyzer attempts that fit in the retry ceiling
NumClusters == 2      \* Redshift clusters that may be associated
MaxPages == 2         \* pages of the ListRules listing
MaxPageLen == 2       \* rules per page

Adapters == {"AA", "RS", "TMF"}
Clusters == 1..NumClusters

----------------------------------------------------------------------------
(* Tags *)
TagKeys == {"a", "b", "aws:c"}
AwsKeys == {"aws:c"}
DefaultTagChoices == {[k \in {} |-> "1"], [k \in {"a"} |-> "1"], [k \in {"a"} |-> "2"]}
ResourceTagChoices ==
    {t \in UNION {[K -> {"2", "3"}] : K \in SUBSET TagKeys} :
        /\ "b" \in DOMAIN t => t["b"] = "3"
        /\ "aws:c" \in DOMAIN t => t["aws:c"] = "2"}
\* the tag blocks a changed configuration can carry
UpdateTagChoices ==
    {t \in ResourceTagChoices :
        \/ DOMAIN t = {}
        \/ DOMAIN t = {"a"} /\ t["a"] = "2"
        \/ DOMAIN t = {"a", "b"} /\ t["a"] = "3"}
IgnoreChoices == {{}, {"b"}}
EmptyTags == [k \in {} |-> "1"]

Restrict(t, K) == [k \in (DOMAIN t) \cap K |-> t[k]]

\* DefaultTagsConfig.MergeTags: union, the resource's value wins on collision
MergeTags(deflt, res) ==
    [k \in (DOMAIN deflt) \cup (DOMAIN res) |->
        IF k \in DOMAIN res THEN res[k] ELSE deflt[k]]

\* KeyValueTags.IgnoreAws: drop the keys with the reserved aws: prefix
IgnoreAws(t) == Restrict(t, (DOMAIN t) \ AwsKeys)

\* KeyValueTags.IgnoreConfig: drop the keys the provider is told to ignore
IgnoreConfig(t, ignore) == Restrict(t, (DOMAIN t) \ ignore)

\* KeyValueTags.RemoveDefaultConfig: drop the entries equal to a default tag
RemoveDefaultConfig(t, deflt) ==
    Restrict(t, {k \in DOMAIN t : ~(k \in DOMAIN deflt /\ deflt[k] = t[k])})

\* (variant: the default tag wins on a key present in both)
CreateTagsDefaultWins(deflt, res) == IgnoreAws(MergeTags(res, deflt))

\* tags built by Create and handed to the create call
CreateTags(deflt, res) == IgnoreAws(MergeTags(deflt, res))

----------------------------------------------------------------------------
(* The external API, as far as the handlers can observe it *)

\* designated not-found signals of the describe / get call
AbsentSignals == {"NotFound", "EmptyList"}

\* responses the describe / get call of adapter k can give
DescribeResponses(k, exists) ==
    IF exists THEN {"Found", "Other"} \cup (IF k = "AA" THEN {"NilOutput"} ELSE {})
    ELSE IF k = "AA" THEN {"NotFound", "Other"}
    ELSE {"NotFound", "EmptyList", "Other"}

\* responses the create call of adapter k can give
CreateResponses(k, exists) ==
    (IF exists THEN {"Other"} ELSE {"Ok", "Other"})
    \cup (IF k = "AA" THEN {"OrgNotReady"} ELSE {})

Call(api, arg, resp) == [api |-> api, arg |-> arg, resp |-> resp]

----------------------------------------------------------------------------
(* Read, as a function of the describe response *)

\* resourceAwsAccessAnalyzerAnalyzerRead
ReadAA(isNew, resp) ==
    IF ~isNew /\ resp = "NotFound" THEN [err |-> FALSE, clear |-> TRUE, set |-> FALSE]
    ELSE IF resp \in {"NotFound", "Other"} THEN [err |-> TRUE, clear |-> FALSE, set |-> FALSE]
    ELSE IF resp = "NilOutput" THEN [err |-> TRUE, clear |-> FALSE, set |-> FALSE]
    ELSE [err |-> FALSE, clear |-> FALSE, set |-> TRUE]

\* resourceAwsRedshiftSnapshotScheduleRead
ReadRS(isNew, resp) ==
    IF resp \in {"NotFound", "Other"} THEN [err |-> TRUE, clear |-> FALSE, set |-> FALSE]
    ELSE IF resp = "EmptyList" THEN [err |-> FALSE, clear |-> TRUE, set |-> FALSE]
    ELSE [err |-> FALSE, clear |-> FALSE, set |-> TRUE]

\* resourceAwsEc2TrafficMirrorFilterRead
ReadTMF(isNew, resp) ==
    IF resp = "NotFound" THEN [err |-> FALSE, clear |-> TRUE, set |-> FALSE]
    ELSE IF resp = "Other" THEN [err |-> TRUE, clear |-> FALSE, set |-> FALSE]
    ELSE IF resp = "EmptyList" THEN [err |-> FALSE, clear |-> TRUE, set |-> FALSE]
    ELSE [err |-> FALSE, clear |-> FALSE, set |-> TRUE]

ReadResult(k, isNew, resp) ==
    CASE k = "AA" -> ReadAA(isNew, resp)
      [] k = "RS" -> ReadRS(isNew, resp)
      [] k = "TMF" -> ReadTMF(isNew, resp)

\* (variant: Read leaves the type alone)
ReadTypeKept(k, rd) == rd.type

\* d.Set("type", ...) of the analyzer's Read
ReadType(k, rd) == IF k = "AA" THEN ext.type ELSE rd.type

\* ResourceData after the Read handler saw response resp
ReadInto(k, rd, resp) ==
    LET r == ReadResult(k, rd.isNew, resp)
        tags == IgnoreConfig(IgnoreAws(ext.tags), meta.ignore)
    IN  IF r.clear THEN [rd EXCEPT !.id = ""]
        ELSE IF r.set THEN
            [rd EXCEPT !.tags = RemoveDefaultConfig(tags, meta.defaultTags),
                       !.tags_all = tags,
                       !.network_services =
                           IF k = "TMF" THEN ext.services ELSE rd.network_services,
                       !.description =
                           IF k \in {"RS", "TMF"} THEN ext.description ELSE rd.description,
                       !.type = ReadType(k, rd),
                       !.definitions =
                           IF k = "RS" THEN ext.definitions ELSE rd.definitions]
        ELSE rd

----------------------------------------------------------------------------
NoLoc == [attempts |-> 0, clusters |-> <<>>, i |-> 0]
NoDs == [listing |-> <<>>, errAt |-> 0, name |-> "", marker |-> 0,
         rules |-> <<>>, visited |-> 0, id |-> 0, status |-> "none"]
NoExt == [exists |-> FALSE, tags |-> EmptyTags, assoc |-> {}, services |-> {},
          description |-> "", type |-> "", definitions |-> {}]
NoData == [id |-> "", isNew |-> FALSE, tainted |-> FALSE,
           tags |-> EmptyTags, tags_all |-> EmptyTags,
           force_destroy |-> FALSE, network_services |-> {},
           description |-> "", type |-> "", definitions |-> {}]
NoOp == [name |-> "none", status |-> "none", preExists |-> FALSE, cfgTags |-> EmptyTags,
         cfg |-> NoData, prior |-> NoData, created |-> NoData]

TheId == "id-1"

Init ==
    /\ meta \in [kind : Adapters, defaultTags : DefaultTagChoices, ignore : IgnoreChoices]
    /\ ext = NoExt
    /\ d = NoData
    /\ pc = "idle"
    /\ op = NoOp
    /\ calls = <<>>
    /\ loc = NoLoc
    /\ ds = NoDs

Finish(name, err) == [op EXCEPT !.name = name, !.status = IF err THEN "error" ELSE "ok"]
Start(name) == [name |-> name, status |-> "running", preExists |-> ext.exists,
                cfgTags |-> EmptyTags, cfg |-> NoData, prior |-> NoData,
                created |-> NoData]

\* Read handler invoked by the framework on an existing resource instance
Read ==
    /\ pc = "idle" /\ d.id # "" /\ ~d.isNew
    /\ \E resp \in DescribeResponses(meta.kind, ext.exists) :
        /\ d' = ReadInto(meta.kind, d, resp)
        /\ op' = [Start("Read") EXCEPT
                    !.status = IF ReadResult(meta.kind, d.isNew, resp).err
                               THEN "error" ELSE "ok"]
        /\ calls' = <<Call("Describe", 0, resp)>>
    /\ UNCHANGED <<meta, ext, pc, loc, ds>>

----------------------------------------------------------------------------
(* Create *)

\* the values a configuration can give the fields of adapter k
FieldChoices(k) ==
    [force_destroy : IF k = "RS" THEN BOOLEAN ELSE {FALSE},
     network_services : IF k = "TMF" THEN SUBSET {"amazon-dns"} ELSE {{}},
     description : CASE k = "RS" -> {"x"} [] k = "TMF" -> {"", "x"} [] OTHER -> {""},
     type : IF k = "AA" THEN {"ACCOUNT", "ORGANIZATION"} ELSE {""},
     definitions : IF k = "RS" THEN {{"rate(12 hours)"}, {"cron(30 12 *)"}} ELSE {{}}]

\* the framework hands Create the ResourceData of the planned resource
CreateBegin ==
    /\ pc = "idle" /\ d.id = ""
    /\ \E t \in ResourceTagChoices, f \in FieldChoices(meta.kind) :
        d' = [id |-> "", isNew |-> TRUE, tainted |-> FALSE, tags |-> t,
              tags_all |-> MergeTags(meta.defaultTags, t),
              force_destroy |-> f.force_destroy,
              network_services |-> f.network_services,
              description |-> f.description,
              type |-> f.type,
              definitions |-> f.definitions]
    /\ pc' = "create"
    /\ op' = [Start("Create") EXCEPT !.cfgTags = d'.tags, !.cfg = d', !.created = NoData]
    /\ calls' = <<>>
    /\ loc' = NoLoc
    /\ UNCHANGED <<meta, ext, ds>>

\* tags the create call of adapter k carries
SentTags(k, deflt, res) ==
    IF k = "TMF" /\ DOMAIN MergeTags(deflt, res) = {} THEN EmptyTags
    ELSE CreateTags(deflt, res)

\* the create call succeeded: the object exists and its identifier becomes the ID
CreateOk(sent, nextpc) ==
    /\ ext' = [exists |-> TRUE, tags |-> sent, assoc |-> {}, services |-> {},
               description |-> d.description, type |-> d.type,
               definitions |-> d.definitions]
    /\ d' = [d EXCEPT !.id = TheId]
    /\ pc' = nextpc
    /\ op' = op

\* the handler returns an error
Fail(name) ==
    /\ pc' = "idle"
    /\ op' = Finish(name, TRUE)

\* CreateSnapshotSchedule / CreateTrafficMirrorFilter
CreateCall ==
    /\ pc = "create" /\ meta.kind \in {"RS", "TMF"}
    /\ LET sent == SentTags(meta.kind, meta.defaultTags, d.tags) IN
       \E resp \in CreateResponses(meta.kind, ext.exists) :
        /\ calls' = Append(calls, Call("Create", sent, resp))
        /\ IF resp = "Ok"
           THEN CreateOk(sent, IF meta.kind = "TMF" /\ d.network_services # {}
                               THEN "create_ns" ELSE "create_read")
           ELSE Fail("Create") /\ d' = [d EXCEPT !.isNew = FALSE] /\ ext' = ext
    /\ UNCHANGED <<meta, loc, ds>>

\* (variant: every CreateAnalyzer error is retried)
RetryVerdictAnyError(resp) == IF resp # "Ok" THEN "retry" ELSE "done"

\* what one run of the retried function tells resource.Retry
RetryVerdict(resp) ==
    IF resp = "OrgNotReady" THEN "retry"
    ELSE IF resp # "Ok" THEN "fail"
    ELSE "done"

\* (variant: the ceiling is noticed one attempt late)
RetryTimedOutLate(n) == n >= MaxAttempts + 1

\* resource.Retry gives up once the attempts made have used up the ceiling
RetryTimedOut(n) == n >= MaxAttempts

\* one CreateAnalyzer attempt inside resource.Retry
CreateAnalyzerAttempt ==
    /\ pc = "create" /\ meta.kind = "AA"
    /\ LET sent == SentTags(meta.kind, meta.defaultTags, d.tags) IN
       \E resp \in CreateResponses(meta.kind, ext.exists) :
        /\ calls' = Append(calls, Call("Create", sent, resp))
        /\ CASE RetryVerdict(resp) = "done" ->
                  CreateOk(sent, "create_read") /\ loc' = loc
             [] RetryVerdict(resp) = "fail" ->
                  Fail("Create") /\ d' = [d EXCEPT !.isNew = FALSE]
                  /\ ext' = ext /\ loc' = loc
             [] RetryVerdict(resp) = "retry" ->
                  /\ loc' = [loc EXCEPT !.attempts = @ + 1]
                  /\ pc' = IF RetryTimedOut(loc.attempts + 1)
                           THEN "create_final" ELSE "create"
                  /\ UNCHANGED <<ext, d, op>>
    /\ UNCHANGED <<meta, ds>>

\* resource.Retry timed out: one more CreateAnalyzer call
CreateAnalyzerFinal ==
    /\ pc = "create_final"
    /\ LET sent == SentTags(meta.kind, meta.defaultTags, d.tags) IN
       \E resp \in CreateResponses(meta.kind, ext.exists) :
        /\ calls' = Append(calls, Call("Create", sent, resp))
        /\ IF resp = "Ok"
           THEN CreateOk(sent, "create_read")
           ELSE Fail("Create") /\ d' = [d EXCEPT !.isNew = FALSE] /\ ext' = ext
    /\ UNCHANGED <<meta, loc, ds>>

\* ModifyTrafficMirrorFilterNetworkServices issued by Create
CreateModifyNetworkServices ==
    /\ pc = "create_ns"
    /\ \E resp \in (IF ext.exists THEN {"Ok", "Other"} ELSE {"NotFound", "Other"}) :
        /\ calls' = Append(calls, Call("ModifyNetworkServices", d.network_services, resp))
        /\ IF resp = "Ok"
           THEN /\ ext' = [ext EXCEPT !.services = d.network_services]
                /\ pc' = "create_read"
                /\ UNCHANGED <<d, op>>
           ELSE Fail("Create") /\ d' = [d EXCEPT !.isNew = FALSE, !.tainted = TRUE]
                /\ ext' = ext
    /\ UNCHANGED <<meta, loc, ds>>

\* the Read that Create delegates to
CreateRead ==
    /\ pc = "create_read"
    /\ \E resp \in DescribeResponses(meta.kind, ext.exists) :
        /\ d' = [ReadInto(meta.kind, d, resp) EXCEPT
                    !.isNew = FALSE,
                    !.tainted = ReadResult(meta.kind, d.isNew, resp).err]
        /\ op' = [Finish("Create", ReadResult(meta.kind, d.isNew, resp).err) EXCEPT
                    !.created = IF resp = "Found" THEN d' ELSE NoData]
        /\ calls' = Append(calls, Call("Describe", 0, resp))
    /\ pc' = "idle"
    /\ UNCHANGED <<meta, ext, loc, ds>>

----------------------------------------------------------------------------
(* Update *)

\* the field groups Update of adapter k handles, in the order of the code
UpdateSteps(k) ==
    CASE k = "AA" -> <<"tags_all">>
      [] k = "RS" -> <<"tags_all", "definitions">>
      [] k = "TMF" -> <<"network_services", "tags_all">>

StepPc(f) ==
    CASE f = "tags_all" -> "upd_tags"
      [] f = "definitions" -> "upd_defs"
      [] f = "network_services" -> "upd_ns"

\* position after field group i: the next changed group, or the delegated Read
RECURSIVE UpdatePcAfter(_, _, _, _)
UpdatePcAfter(k, i, prior, plan) ==
    IF i >= Len(UpdateSteps(k)) THEN "upd_read"
    ELSE IF prior[UpdateSteps(k)[i + 1]] # plan[UpdateSteps(k)[i + 1]]
         THEN StepPc(UpdateSteps(k)[i + 1])
         ELSE UpdatePcAfter(k, i + 1, prior, plan)

StepIndex(k, f) == CHOOSE i \in 1..Len(UpdateSteps(k)) : UpdateSteps(k)[i] = f

\* the framework hands Update the planned ResourceData; a change of a
\* force-new field is planned as a replacement and never reaches Update
UpdateBegin ==
    /\ pc = "idle" /\ d.id # "" /\ ~d.tainted
    /\ \E t \in UpdateTagChoices, f \in FieldChoices(meta.kind) :
        LET plan == [d EXCEPT !.tags = t,
                              !.tags_all = MergeTags(meta.defaultTags, t),
                              !.force_destroy = f.force_destroy,
                              !.network_services = f.network_services,
                              !.definitions = f.definitions]
        IN  /\ f.description = d.description /\ f.type = d.type
            /\ plan # d
            /\ d' = plan
            /\ op' = [Start("Update") EXCEPT !.prior = d, !.cfg = plan, !.cfgTags = t]
            /\ pc' = UpdatePcAfter(meta.kind, 0, d, plan)
    /\ calls' = <<>>
    /\ loc' = NoLoc
    /\ UNCHANGED <<meta, ext, ds>>

\* responses of a modify / tagging call
ModifyResponses(exists) == IF exists THEN {"Ok", "Other"} ELSE {"NotFound", "Other"}

\* keyvaluetags.*UpdateTags: untag the keys removed, tag the entries added or changed
UpdateTags(current, o, n) ==
    LET kept == Restrict(current, (DOMAIN current) \ ((DOMAIN o) \ (DOMAIN n)))
        updated == IgnoreAws(Restrict(n, {k \in DOMAIN n :
                                            ~(k \in DOMAIN o /\ o[k] = n[k])}))
    IN  MergeTags(kept, updated)

\* the tagging calls of Update
UpdateTagsCall ==
    /\ pc = "upd_tags"
    /\ \E resp \in ModifyResponses(ext.exists) :
        /\ calls' = Append(calls, Call("UpdateTags",
                                       [Old |-> op.prior.tags_all, New |-> d.tags_all], resp))
        /\ IF resp = "Ok"
           THEN /\ ext' = [ext EXCEPT !.tags = UpdateTags(@, op.prior.tags_all, d.tags_all)]
                /\ pc' = UpdatePcAfter(meta.kind, StepIndex(meta.kind, "tags_all"),
                                       op.prior, d)
                /\ op' = op
           ELSE Fail("Update") /\ ext' = ext
    /\ UNCHANGED <<meta, d, loc, ds>>

\* (variant: the modify call also carries the description)
ModifyScheduleInputWithDescription(rd) ==
    [ScheduleIdentifier |-> rd.id, ScheduleDefinitions |-> rd.definitions,
     ScheduleDescription |-> rd.description]

\* redshift.ModifySnapshotScheduleInput built by Update
ModifyScheduleInput(rd) ==
    [ScheduleIdentifier |-> rd.id, ScheduleDefinitions |-> rd.definitions]

\* what ModifySnapshotSchedule does to the schedule
ApplyModifySchedule(e, input) ==
    [e EXCEPT !.definitions = input.ScheduleDefinitions,
              !.description = IF "ScheduleDescription" \in DOMAIN input
                              THEN input.ScheduleDescription ELSE @]

\* ModifySnapshotSchedule issued by Update when definitions changed
UpdateModifyDefinitions ==
    /\ pc = "upd_defs"
    /\ \E resp \in ModifyResponses(ext.exists) :
        /\ calls' = Append(calls, Call("ModifySnapshotSchedule", ModifyScheduleInput(d), resp))
        /\ CASE resp = "Ok" ->
                  /\ ext' = ApplyModifySchedule(ext, ModifyScheduleInput(d))
                  /\ pc' = "upd_read"
                  /\ UNCHANGED <<d, op>>
             [] resp = "NotFound" ->
                  /\ d' = [d EXCEPT !.id = ""]
                  /\ pc' = "idle"
                  /\ op' = Finish("Update", FALSE)
                  /\ ext' = ext
             [] OTHER ->
                  Fail("Update") /\ UNCHANGED <<d, ext>>
    /\ UNCHANGED <<meta, loc, ds>>

\* (variant: the two differences are swapped)
NetworkServicesInputSwapped(id, o, n) ==
    [TrafficMirrorFilterId |-> id, AddNetworkServices |-> o \ n,
     RemoveNetworkServices |-> n \ o]

\* ec2.ModifyTrafficMirrorFilterNetworkServicesInput built by Update
NetworkServicesInput(id, o, n) ==
    [TrafficMirrorFilterId |-> id, AddNetworkServices |-> n \ o,
     RemoveNetworkServices |-> o \ n]

\* ModifyTrafficMirrorFilterNetworkServices issued by Update
UpdateModifyNetworkServices ==
    /\ pc = "upd_ns"
    /\ LET input == NetworkServicesInput(d.id, op.prior.network_services,
                                         d.network_services) IN
       \E resp \in ModifyResponses(ext.exists) :
        /\ calls' = Append(calls, Call("ModifyNetworkServices", input, resp))
        /\ IF resp = "Ok"
           THEN /\ ext' = [ext EXCEPT !.services =
                              (@ \cup input.AddNetworkServices)
                                  \ input.RemoveNetworkServices]
                /\ pc' = UpdatePcAfter(meta.kind, StepIndex(meta.kind, "network_services"),
                                       op.prior, d)
                /\ op' = op
           ELSE Fail("Update") /\ ext' = ext
    /\ UNCHANGED <<meta, d, loc, ds>>

\* the Read that Update delegates to
UpdateRead ==
    /\ pc = "upd_read"
    /\ \E resp \in DescribeResponses(meta.kind, ext.exists) :
        /\ d' = ReadInto(meta.kind, d, resp)
        /\ op' = Finish("Update", ReadResult(meta.kind, d.isNew, resp).err)
        /\ calls' = Append(calls, Call("Describe", 0, resp))
    /\ pc' = "idle"
    /\ UNCHANGED <<meta, ext, loc, ds>>

----------------------------------------------------------------------------
(* Delete *)

\* the delete handlers, as a function of the delete call's response
DeleteAA(resp) == IF resp = "NotFound" THEN FALSE ELSE resp # "Ok"
DeleteRS(resp) == IF resp = "NotFound" THEN FALSE ELSE resp # "Ok"
\* (variant: the filter's Delete logs the error and reports success)
DeleteTMFIgnoresErrors(resp) == FALSE

\* resourceAwsEc2TrafficMirrorFilterDelete: every error is returned
DeleteTMF(resp) == resp # "Ok"

\* TRUE iff Delete returns an error
DeleteErr(k, resp) ==
    CASE k = "AA" -> DeleteAA(resp)
      [] k = "RS" -> DeleteRS(resp)
      [] k = "TMF" -> DeleteTMF(resp)

\* a schedule with associated clusters cannot be deleted
DeleteResponses(e) ==
    IF e.exists THEN (IF e.assoc = {} THEN {"Ok", "Other"} ELSE {"Other"})
    ELSE {"NotFound", "Other"}

RECURSIVE SetToSeq(_)
SetToSeq(S) ==
    IF S = {} THEN <<>>
    ELSE LET m == CHOOSE x \in S : \A y \in S : x <= y
         IN  <<m>> \o SetToSeq(S \ {m})

\* (variant: the clusters are detached whatever force_destroy says)
UsesForceDestroyAlways == meta.kind = "RS"

\* if d.Get("force_destroy").(bool)
UsesForceDestroy == meta.kind = "RS" /\ d.force_destroy

\* DeleteAllAssociatedClusters: DescribeSnapshotSchedules enumerates the clusters
DeleteDescribe ==
    /\ pc = "idle" /\ d.id # "" /\ UsesForceDestroy
    /\ \E resp \in DescribeResponses("RS", ext.exists) :
        /\ calls' = <<Call("Describe", IF resp = "Found" THEN ext.assoc ELSE {}, resp)>>
        /\ IF resp \in {"NotFound", "EmptyList"}
           THEN /\ pc' = "del_parent" /\ op' = Start("Delete") /\ loc' = NoLoc
           ELSE IF resp = "Other"
           THEN /\ pc' = "idle" /\ loc' = NoLoc
                /\ op' = [Start("Delete") EXCEPT !.status = "error"]
           ELSE /\ loc' = [NoLoc EXCEPT !.clusters = SetToSeq(ext.assoc), !.i = 1]
                /\ pc' = IF ext.assoc = {} THEN "del_parent" ELSE "del_detach"
                /\ op' = Start("Delete")
    /\ UNCHANGED <<meta, ext, d, ds>>

DetachResponses(exists) ==
    IF exists THEN {"Ok", "ClusterNotFound", "Other"}
    ELSE {"ScheduleNotFound", "ClusterNotFound", "Other"}

\* (variant: the detach loop logs every error and goes on)
DetachAbortsNever(resp) == FALSE

\* TRUE iff the detach loop returns on this response
DetachAborts(resp) == resp \notin {"Ok", "ClusterNotFound", "ScheduleNotFound"}

\* first loop: ModifyClusterSnapshotSchedule(DisassociateSchedule) per cluster
DeleteDetach ==
    /\ pc = "del_detach"
    /\ LET c == loc.clusters[loc.i] IN
       \E resp \in DetachResponses(ext.exists) :
        /\ calls' = Append(calls, Call("Disassociate", c, resp))
        /\ ext' = IF resp \in {"Ok", "ClusterNotFound"}
                  THEN [ext EXCEPT !.assoc = @ \ {c}] ELSE ext
        /\ IF DetachAborts(resp)
           THEN Fail("Delete") /\ loc' = loc
           ELSE /\ op' = op
                /\ IF loc.i < Len(loc.clusters)
                   THEN pc' = "del_detach" /\ loc' = [loc EXCEPT !.i = @ + 1]
                   ELSE pc' = "del_wait" /\ loc' = [loc EXCEPT !.i = 1]
    /\ UNCHANGED <<meta, d, ds>>

\* waitForRedshiftSnapshotScheduleAssociationDestroy: nil once the association
\* is observed gone, an error when the bounded wait gives up
WaitResponses(c) == (IF c \in ext.assoc THEN {} ELSE {"Ok"}) \cup {"Timeout"}

\* (variant: the result of the wait is dropped)
WaitAbortsNever(resp) == FALSE

\* TRUE iff the wait loop returns on this outcome
WaitAborts(resp) == resp # "Ok"

\* second loop: wait for every disassociation
DeleteWait ==
    /\ pc = "del_wait"
    /\ LET c == loc.clusters[loc.i] IN
       \E resp \in WaitResponses(c) :
        /\ calls' = Append(calls, Call("Wait", c, resp))
        /\ IF WaitAborts(resp)
           THEN Fail("Delete") /\ loc' = loc
           ELSE /\ op' = op
                /\ IF loc.i < Len(loc.clusters)
                   THEN pc' = "del_wait" /\ loc' = [loc EXCEPT !.i = @ + 1]
                   ELSE pc' = "del_parent" /\ loc' = loc
    /\ UNCHANGED <<meta, ext, d, ds>>

\* DeleteAnalyzer / DeleteSnapshotSchedule / DeleteTrafficMirrorFilter
DeleteParent ==
    /\ \/ pc = "del_parent"
       \/ pc = "idle" /\ d.id # "" /\ ~UsesForceDestroy
    /\ \E resp \in DeleteResponses(ext) :
        /\ calls' = Append(IF pc = "idle" THEN <<>> ELSE calls, Call("Delete", 0, resp))
        /\ ext' = IF resp = "Ok" THEN NoExt ELSE ext
        /\ op' = [(IF pc = "idle" THEN Start("Delete") ELSE op) EXCEPT
                    !.status = IF DeleteErr(meta.kind, resp) THEN "error" ELSE "ok"]
    /\ pc' = "idle"
    /\ loc' = IF pc = "idle" THEN NoLoc ELSE loc
    /\ UNCHANGED <<meta, d, ds>>

\* after a successful Delete the framework drops the instance from its state
RemoveFromState ==
    /\ pc = "idle" /\ d.id # "" /\ op.name = "Delete" /\ op.status = "ok"
    /\ d' = NoData
    /\ UNCHANGED <<meta, ext, pc, op, calls, loc, ds>>

----------------------------------------------------------------------------
(* Import *)

\* the instance is dropped from the state, the external object stays
StateRemove ==
    /\ pc = "idle" /\ d.id # ""
    /\ d' = NoData
    /\ op' = [NoOp EXCEPT !.created = op.created]
    /\ calls' = <<>>
    /\ UNCHANGED <<meta, ext, pc, loc, ds>>

\* schema.ImportStatePassthrough: an empty ResourceData that holds the ID only
ImportSeed(id) == [NoData EXCEPT !.id = id]

\* Import: the importer sets the ID, then the framework runs Read; an import
\* whose Read fails or clears the ID leaves no state
Import ==
    /\ pc = "idle" /\ d.id = ""
    /\ \E resp \in DescribeResponses(meta.kind, ext.exists) :
        LET rd == ReadInto(meta.kind, ImportSeed(TheId), resp)
            failed == ReadResult(meta.kind, FALSE, resp).err \/ rd.id = ""
        IN  /\ d' = IF failed THEN NoData ELSE rd
            /\ op' = [Start("Import") EXCEPT
                        !.status = IF failed THEN "error" ELSE "ok",
                        !.created = op.created]
            /\ calls' = <<Call("Describe", 0, resp)>>
    /\ loc' = NoLoc
    /\ UNCHANGED <<meta, ext, pc, ds>>

----------------------------------------------------------------------------
(* The world outside the provider *)

\* somebody else deletes the external object
OutOfBandDelete ==
    /\ ext.exists
    /\ ext' = NoExt
    /\ UNCHANGED <<meta, d, pc, op, calls, loc, ds>>

\* somebody associates a cluster with the snapshot schedule
ClusterAssociate ==
    /\ ext.exists /\ meta.kind = "RS"
    /\ \E c \in Clusters \ ext.assoc : ext' = [ext EXCEPT !.assoc = @ \cup {c}]
    /\ UNCHANGED <<meta, d, pc, op, calls, loc, ds>>

Next ==
    \/ CreateBegin \/ CreateCall \/ CreateAnalyzerAttempt \/ CreateAnalyzerFinal
    \/ CreateModifyNetworkServices \/ CreateRead
    \/ Read
    \/ UpdateBegin \/ UpdateTagsCall \/ UpdateModifyDefinitions
    \/ UpdateModifyNetworkServices \/ UpdateRead
    \/ DeleteDescribe \/ DeleteDetach \/ DeleteWait \/ DeleteParent
    \/ RemoveFromState
    \/ StateRemove \/ Import
    \/ OutOfBandDelete \/ ClusterAssociate

Spec == Init /\ [][Next]_vars

\* the analyzer adapter on its own; every API call returns, so a handler that
\* is inside Create takes its next step
InitAA == Init /\ meta.kind = "AA"
NextAA ==
    \/ CreateBegin \/ CreateAnalyzerAttempt \/ CreateAnalyzerFinal \/ CreateRead
    \/ Read
    \/ UpdateBegin \/ UpdateTagsCall \/ UpdateRead
    \/ DeleteParent \/ RemoveFromState
    \/ StateRemove \/ Import
    \/ OutOfBandDelete
FairAA ==
    /\ WF_vars(CreateAnalyzerAttempt)
    /\ WF_vars(CreateAnalyzerFinal)
    /\ WF_vars(CreateRead)
SpecAA == InitAA /\ [][NextAA]_vars /\ FairAA

----------------------------------------------------------------------------
(* Data source: WAF regional rule looked up by name *)

Names == {"foo", "bar"}

\* a page is the sequence of the names of its rules
PagesOfNames == UNION {[1..n -> Names] : n \in 0..MaxPageLen}
Listings == UNION {[1..n -> PagesOfNames] : n \in 1..MaxPages}

\* the rule IDs are unique over the listing
RuleIdAt(p, i) == p * (MaxPageLen + 2) + i

\* conn.ListRules(input): the page after the marker, with its NextMarker (0: nil)
ListRules(listing, errAt, marker) ==
    LET p == marker + 1 IN
    IF errAt = p THEN [err |-> TRUE, Rules |-> <<>>, NextMarker |-> 0]
    ELSE [err |-> FALSE,
          Rules |-> [i \in 1..Len(listing[p]) |->
                        [Name |-> listing[p][i], RuleId |-> RuleIdAt(p, i)]],
          NextMarker |-> IF p < Len(listing) THEN p ELSE 0]

\* the rules of one page whose name equals the name looked up
Matching(rules, name) == SelectSeq(rules, LAMBDA r : r.Name = name)

\* (variant: the loop ends after the first page)
ExhaustedAtOnce(output) == TRUE

\* the loop ends when the page carries no NextMarker
Exhausted(output) == output.NextMarker = 0

\* (variant: several matches, the first one is taken)
DecideFirst(rules) ==
    IF Len(rules) = 0 THEN [status |-> "notfound", id |-> 0]
    ELSE [status |-> "ok", id |-> rules[1].RuleId]

\* the decision after the loop
Decide(rules) ==
    IF Len(rules) = 0 THEN [status |-> "notfound", id |-> 0]
    ELSE IF Len(rules) > 1 THEN [status |-> "multiple", id |-> 0]
    ELSE [status |-> "ok", id |-> rules[1].RuleId]

InitDS ==
    /\ meta = [kind |-> "AA", defaultTags |-> EmptyTags, ignore |-> {}]
    /\ ext = NoExt
    /\ d = NoData
    /\ pc = "idle"
    /\ op = NoOp
    /\ calls = <<>>
    /\ loc = NoLoc
    /\ \E L \in Listings : \E e \in 0..Len(L), n \in Names :
        ds = [NoDs EXCEPT !.listing = L, !.errAt = e, !.name = n, !.status = "running"]

\* dataSourceAwsWafRegionalRuleRead: one ListRules call and what follows it
DataSourceRead ==
    /\ ds.status = "running"
    /\ LET output == ListRules(ds.listing, ds.errAt, ds.marker)
           rules == ds.rules \o Matching(output.Rules, ds.name)
       IN  ds' = IF output.err
                 THEN [ds EXCEPT !.visited = @ + 1, !.status = "error"]
                 ELSE IF Exhausted(output)
                 THEN [ds EXCEPT !.visited = @ + 1, !.rules = rules,
                                 !.status = Decide(rules).status,
                                 !.id = Decide(rules).id]
                 ELSE [ds EXCEPT !.visited = @ + 1, !.rules = rules,
                                 !.marker = output.NextMarker]
    /\ UNCHANGED <<meta, ext, d, pc, op, calls, loc>>

NextDS == DataSourceRead

SpecDS == InitDS /\ [][NextDS]_vars

\* the provider as a whole: a resource instance or a data source lookup
InitAll == Init \/ InitDS
NextAll == (ds.status = "none" /\ Next) \/ NextDS
SpecAll == InitAll /\ [][NextAll]_vars
----------------------------------------------------------------------------
(* Properties *)

Finished(name) == pc = "idle" /\ op.name = name /\ op.status \in {"ok", "error"}
LastCall == calls[Len(calls)]
CallsOf(api) == {i \in 1..Len(calls) : calls[i].api = api}

\* C1: when Read runs on a resource that is not newly created and the API
\* reports the object absent (not-found error code or empty result list),
\* Read clears the resource ID and returns no error, for every adapter.
C1_ReadAbsentClearsId ==
    (Finished("Read") /\ LastCall.resp \in AbsentSignals)
        => (op.status = "ok" /\ d.id = "")

\* C2: Delete invoked on an ID whose external object is already absent (the
\* delete call answers not-found) returns success, for every adapter.
C2_DeleteAbsentSucceeds ==
    (Finished("Delete") /\ LastCall.api = "Delete" /\ LastCall.resp = "NotFound")
        => op.status = "ok"

\* C3: after Delete of an existing resource returned success the external
\* object no longer exists, and the next Read of the same ID, whichever way
\* the API signals absence, clears the ID and returns no error.
C3_DeleteThenRead ==
    [][ /\ (Finished("Delete")' /\ op'.status = "ok" /\ op'.preExists) => ~ext'.exists
        /\ (/\ Finished("Delete") /\ op.status = "ok" /\ op.preExists
            /\ op'.name = "Read" /\ calls'[1].resp \in AbsentSignals)
              => (op'.status = "ok" /\ d'.id = "") ]_vars

\* C4: when the Read that Create delegates to finds the just-created object
\* absent, Create returns an error; Create never returns success with the
\* resource ID cleared.
C4_CreateAbsentIsError ==
    Finished("Create") =>
        /\ (LastCall.api = "Describe" /\ LastCall.resp \in AbsentSignals)
              => op.status = "error"
        /\ op.status = "ok" => d.id # ""

\* C5: the lookup by name succeeds only when exactly one listed rule has the
\* name; with no match it fails as not found, with two or more as multiple
\* found, and a failed lookup binds no ID.
MatchIds ==
    {m \in (1..Len(ds.listing)) \X (1..MaxPageLen + 1) :
        m[2] <= Len(ds.listing[m[1]]) /\ ds.listing[m[1]][m[2]] = ds.name}
DsDone == ds.status \in {"ok", "notfound", "multiple", "error"}
C6_AllPagesVisited ==
    DsDone =>
        /\ ds.status # "error" =>
              /\ ds.visited = Len(ds.listing)
              /\ Len(ds.rules) = Cardinality(MatchIds)
        /\ ds.status = "ok" =>
              \E m \in MatchIds : MatchIds = {m} /\ ds.id = RuleIdAt(m[1], m[2])
        /\ ds.errAt # 0 => (ds.status = "error" /\ ds.id = 0 /\ ds.visited = ds.errAt)
C6_Witness ==
    /\ ds.status = "ok" /\ Len(ds.listing) >= 2
    /\ \E m \in MatchIds : m[1] = Len(ds.listing) /\ ds.id = RuleIdAt(m[1], m[2])

\* t is the union of deflt and res, the value of res on a key of both,
\* without the keys in excluded
IsUnionWithout(t, deflt, res, excluded) ==
    /\ DOMAIN t = ((DOMAIN deflt) \cup (DOMAIN res)) \ excluded
    /\ \A k \in DOMAIN t :
          /\ k \in DOMAIN res => t[k] = res[k]
          /\ k \notin DOMAIN res => t[k] = deflt[k]
CreateReadFound ==
    Finished("Create") /\ op.status = "ok" /\ LastCall.resp = "Found"

\* C7 as claimed: the tag set sent on Create is the union of the default tags
\* and the declared tags, the declared value winning, and after Read tags_all
\* holds that set.
C7_TagsAreUnion ==
    op.name = "Create" =>
        /\ \A i \in CallsOf("Create") :
              IsUnionWithout(calls[i].arg, meta.defaultTags, op.cfgTags, {})
        /\ CreateReadFound =>
              IsUnionWithout(d.tags_all, meta.defaultTags, op.cfgTags, {})

\* C7 amended: the tag set sent on Create is that union less the keys with
\* the reserved aws: prefix, and after the Read of Create tags_all holds it
\* less the keys of the ignore-tags configuration.
C7_TagsAreUnionLessIgnored ==
    op.name = "Create" =>
        /\ \A i \in CallsOf("Create") :
              IsUnionWithout(calls[i].arg, meta.defaultTags, op.cfgTags, AwsKeys)
        /\ CreateReadFound =>
              IsUnionWithout(d.tags_all, meta.defaultTags, op.cfgTags,
                             AwsKeys \cup meta.ignore)
C7_Witness ==
    /\ CreateReadFound
    /\ meta.defaultTags = [k \in {"a"} |-> "1"]
    /\ op.cfgTags = [k \in {"a", "b"} |-> IF k = "a" THEN "2" ELSE "3"]
    /\ d.tags_all = [k \in {"a", "b"} |-> IF k = "a" THEN "2" ELSE "3"]

\* C8: in analyzer Create a CreateAnalyzer failure is followed by another
\* CreateAnalyzer call only when it is the organization-not-ready error; any
\* other error is the last call of Create, which returns an error.
C8_OnlyOrgNotReadyRetried ==
    (meta.kind = "AA" /\ op.name = "Create") =>
        \A i \in CallsOf("Create") :
            /\ calls[i].resp = "Other" =>
                  (i = Len(calls) /\ Finished("Create") /\ op.status = "error")
            /\ (i < Len(calls) /\ calls[i + 1].api = "Create") =>
                  calls[i].resp = "OrgNotReady"
C8_Witness ==
    /\ meta.kind = "AA" /\ Finished("Create") /\ op.status = "error"
    /\ Len(calls) = 2 /\ calls[1].resp = "OrgNotReady" /\ calls[2].resp = "Other"

\* C9: with force_destroy the DeleteSnapshotSchedule call is issued only after
\* every enumerated cluster had its disassociate call and then a wait that
\* confirmed it: enumerate, detach all, confirm all, delete the parent.
C9_DetachAllBeforeParentDelete ==
    (op.name = "Delete" /\ calls # <<>> /\ calls[1].api = "Describe") =>
        \A j \in CallsOf("Delete") :
            /\ j = Len(calls)
            /\ \A c \in calls[1].arg :
                  \E i, w \in 2..(j - 1) :
                      /\ i < w
                      /\ calls[i].api = "Disassociate" /\ calls[i].arg = c
                      /\ calls[w] = Call("Wait", c, "Ok")
            /\ \A i, w \in 2..(j - 1) :
                  (calls[i].api = "Disassociate" /\ calls[w].api = "Wait") => i < w
C9_Witness ==
    /\ Finished("Delete") /\ op.status = "ok"
    /\ calls[1].api = "Describe" /\ Cardinality(calls[1].arg) >= 2
    /\ LastCall = Call("Delete", 0, "Ok")

DetachCallFailed(c, benign) == c.api = "Disassociate" /\ c.resp \notin ({"Ok"} \cup benign)
WaitFailed(c) == c.api = "Wait" /\ c.resp # "Ok"
AbortedDelete(i) ==
    /\ i = Len(calls)
    /\ Finished("Delete") /\ op.status = "error"
    /\ CallsOf("Delete") = {}

\* C10 as claimed: with force_destroy the failure of any disassociate call or
\* of any wait aborts Delete: an error is returned and DeleteSnapshotSchedule
\* is never issued.
C10_AnyDetachFailureAborts ==
    op.name = "Delete" =>
        \A i \in 1..Len(calls) :
            (DetachCallFailed(calls[i], {}) \/ WaitFailed(calls[i])) => AbortedDelete(i)

\* C10 amended: the failure of a disassociate call with an error other than
\* cluster-not-found or schedule-not-found, or of any wait, aborts Delete.
C10_DetachFailureAbortsUnlessNotFound ==
    op.name = "Delete" =>
        \A i \in 1..Len(calls) :
            (\/ DetachCallFailed(calls[i], {"ClusterNotFound", "ScheduleNotFound"})
             \/ WaitFailed(calls[i])) => AbortedDelete(i)
C10_Witness ==
    /\ Finished("Delete") /\ op.status = "error"
    /\ Len(calls) = 3 /\ DetachCallFailed(calls[3], {"ClusterNotFound", "ScheduleNotFound"})

\* input fields that would rewrite a force-new field of the external object
ForceNewInputs == {"ScheduleDescription", "Description", "AnalyzerName", "Type"}
IsUpdateCall == op'.name = "Update" /\ Len(calls') = Len(calls) + 1
ModifyCalls == {"ModifySnapshotSchedule", "ModifyNetworkServices"}

\* C11: no API call of Update changes a force-new field of the external
\* object: across every call that Update issues the object keeps its identity,
\* its description and its type, and the input of a modify call names no
\* force-new field.
C11_UpdateKeepsForceNew ==
    [][ IsUpdateCall =>
          /\ ext'.exists = ext.exists
          /\ ext'.description = ext.description
          /\ ext'.type = ext.type
          /\ calls'[Len(calls')].api \in ModifyCalls =>
                (DOMAIN calls'[Len(calls')].arg) \cap ForceNewInputs = {} ]_vars
C11_Witness ==
    /\ meta.kind = "RS" /\ Finished("Update") /\ op.status = "ok"
    /\ \E i \in CallsOf("ModifySnapshotSchedule") : calls[i].resp = "Ok"
    /\ ext.exists /\ ext.description = "x"
    /\ ext.definitions # op.prior.definitions

\* an error that is neither a designated not-found nor the retryable code
UnexpectedError(c) == c.resp \in {"Other", "Timeout"}

\* C12: an API call that fails with an error that is neither a designated
\* not-found code nor the retryable code is the last call of its operation,
\* and the operation (Create, Read, Update, Delete, data-source Read) returns
\* an error.
C12_UnexpectedErrorSurfaces ==
    /\ \A i \in 1..Len(calls) :
          UnexpectedError(calls[i]) =>
              (i = Len(calls) /\ pc = "idle" /\ op.status = "error")
    /\ (ds.errAt # 0 /\ ds.visited >= ds.errAt) => ds.status = "error"
C12_Witness ==
    /\ meta.kind = "TMF" /\ Finished("Create") /\ op.status = "error"
    /\ Len(calls) = 2 /\ calls[1].resp = "Ok"
    /\ LastCall.api = "ModifyNetworkServices" /\ LastCall.resp = "Other"

SchemaFields == {"tags", "tags_all", "force_destroy", "network_services",
                 "description", "type", "definitions"}
\* the fields no Read writes
UnreadFields == {"force_destroy"}
ImportedAfterCreate == Finished("Import") /\ op.status = "ok" /\ op.created.id # ""

\* C13 as claimed: the state produced by Import (set the ID, then Read) equals
\* the state produced by Create followed by Read for the same external object,
\* for every schema field.
C13_ImportEqualsCreate ==
    ImportedAfterCreate =>
        (d.id = op.created.id /\ \A f \in SchemaFields : d[f] = op.created[f])

\* C13 amended: the two states are equal in the ID and in every schema field
\* that Read writes; a field kept only in the configuration (force_destroy)
\* has its configured value after Create and its zero value after Import.
C13_ImportEqualsCreateOnReadFields ==
    ImportedAfterCreate =>
        /\ d.id = op.created.id
        /\ \A f \in SchemaFields \ UnreadFields : d[f] = op.created[f]
        /\ \A f \in UnreadFields : d[f] = NoData[f]
C13_Witness ==
    /\ ImportedAfterCreate /\ meta.kind = "RS"
    /\ op.created.force_destroy /\ ~d.force_destroy
    /\ d.description = "x" /\ d.tags_all # EmptyTags /\ d.tags # d.tags_all
    /\ d.definitions = op.created.definitions

\* the fields a configuration sets (tags_all is computed)
ConfiguredFields == SchemaFields \ {"tags_all"}

\* C14: after a successful Create the state written by the delegated Read
\* holds, for every field set in the configuration passed to Create, the
\* configured value.
C14_ReadReproducesConfig ==
    (Finished("Create") /\ op.status = "ok") =>
        \A f \in ConfiguredFields : d[f] = op.cfg[f]

CreateRunning == pc \in {"create", "create_final", "create_read"}
CreateAttempts == Cardinality(CallsOf("Create"))
CreateBounded ==
    (meta.kind = "AA" /\ op.name = "Create") =>
        /\ CreateAttempts <= MaxAttempts + 1
        /\ \A i \in CallsOf("Create") :
              (i < Len(calls) /\ calls[i + 1].api = "Create") => calls[i].resp = "OrgNotReady"
        /\ (pc = "create_final" \/ CreateAttempts = MaxAttempts + 1) =>
              \A i \in 1..MaxAttempts : calls[i].resp = "OrgNotReady"
        /\ pc = "create_final" => CreateAttempts = MaxAttempts
        /\ Finished("Create") =>
              \/ /\ op.status = "ok" /\ d.id = TheId
                 /\ \E i \in CallsOf("Create") : calls[i].resp = "Ok"
              \/ op.status = "error"

\* C15: analyzer Create always terminates: CreateAnalyzer is re-attempted only
\* while the retry ceiling is not reached, after the timeout exactly one
\* further attempt is made, and Create ends either in success with the ID set
\* to the analyzer name or in a returned error.
C15_CreateTerminates ==
    /\ []CreateBounded
    /\ CreateRunning ~> Finished("Create")
C15_Witness ==
    /\ meta.kind = "AA" /\ Finished("Create") /\ op.status = "ok" /\ d.id = TheId
    /\ CreateAttempts = MaxAttempts + 1
    /\ calls[MaxAttempts + 1].resp = "Ok"

CreateCallSucceeded == \E i \in CallsOf("Create") : calls[i].resp = "Ok"

\* C16: whenever Create returns, the resource ID is non-empty if and only if
\* the external create call succeeded: a failed create call is the last call
\* and leaves the ID empty, and a failure of a later step (the network-services
\* modify, the delegated Read) leaves the ID set.
C16_IdSetIffCreated ==
    Finished("Create") =>
        /\ (d.id # "") <=> CreateCallSucceeded
        /\ \A i \in CallsOf("Create") :
              calls[i].resp \notin {"Ok", "OrgNotReady"} => (i = Len(calls) /\ d.id = "")
        /\ (op.status = "error" /\ CreateCallSucceeded) => d.id = TheId

NsCalls == CallsOf("ModifyNetworkServices")

\* C17: in traffic mirror filter Update, when network_services changed from O
\* to N exactly one modify call is issued, it adds N \ O and removes O \ N
\* (disjoint sets), and the external set after the call is N; when
\* network_services did not change no modify call is issued.
C17_NetworkServicesDiff ==
    (meta.kind = "TMF" /\ op.name = "Update") =>
        LET O == op.prior.network_services
            N == op.cfg.network_services
        IN  /\ O = N => NsCalls = {}
            /\ Cardinality(NsCalls) <= 1
            /\ (O # N /\ pc # "upd_ns") => Cardinality(NsCalls) = 1
            /\ \A i \in NsCalls :
                  /\ calls[i].arg.AddNetworkServices = N \ O
                  /\ calls[i].arg.RemoveNetworkServices = O \ N
                  /\ calls[i].arg.AddNetworkServices
                        \cap calls[i].arg.RemoveNetworkServices = {}
                  /\ (calls[i].resp = "Ok" /\ ext.exists) => ext.services = N
C17_Witness ==
    /\ meta.kind = "TMF" /\ Finished("Update") /\ op.status = "ok"
    /\ op.prior.network_services = {"amazon-dns"} /\ op.cfg.network_services = {}
    /\ NsCalls = {1} /\ calls[1].resp = "Ok"
    /\ calls[1].arg.RemoveNetworkServices = {"amazon-dns"}
    /\ ext.exists /\ ext.services = {} /\ d.network_services = {}

DeleteStarts == pc = "idle" /\ op'.name = "Delete" /\ (op' # op \/ calls' # calls)

\* C18: snapshot schedule Delete with force_destroy false makes no describe
\* and no disassociate call: its only API call is DeleteSnapshotSchedule and
\* the set of associated clusters is the same after it.
C18_PlainDeleteLeavesClusters ==
    [][ (meta.kind = "RS" /\ ~d.force_destroy /\ DeleteStarts) =>
          /\ pc' = "idle"
          /\ Len(calls') = 1 /\ calls'[1].api = "Delete"
          /\ ext'.assoc = ext.assoc ]_vars
C18_Witness ==
    /\ meta.kind = "RS" /\ Finished("Delete") /\ op.status = "error"
    /\ d.id # "" /\ ~d.force_destroy
    /\ calls = <<Call("Delete", 0, "Other")>>
    /\ ext.exists /\ Cardinality(ext.assoc) = NumClusters
====
